---- MODULE Spec2Model ----
(***************************************************************************)
(* mdview (src/glow.js): the interactive file selector with in-file        *)
(* search, the hand-off of a rendered document to the pager `less`, and    *)
(* the program entry `main`.                                               *)
(*                                                                         *)
(* src/glow.js holds two copies of the program; the second copy (lines     *)
(* 237-622) is the complete one (search mode, recursive discovery, resume  *)
(* line) and is the one modelled here.                                     *)
(*                                                                         *)
(* Strings are sequences of character codes, so that the comparisons of    *)
(* the key handler (key >= ' ', key.length === 1) and toLowerCase() are    *)
(* computed as the code computes them.                                     *)
(***************************************************************************)
EXTENDS Integers, Sequences, FiniteSets, TLC

(***************************************************************************)
(* Bounds of the model.                                                    *)
(***************************************************************************)
\* number of documents the scanned directory may hold
MaxFiles == 2
\* longest search query typed
MaxQuery == 2
\* largest value of the millisecond clock Date.now()
MaxClock == 1

(***************************************************************************)
(* Characters and strings.                                                 *)
(***************************************************************************)
\* the code unit of a character (the ones the model's texts and keys use)
Code(c) ==
    CASE c = "NL"  -> 10
      [] c = "ESC" -> 27
      [] c = " "   -> 32
      [] c = "*"   -> 42
      [] c = "-"   -> 45
      [] c = "."   -> 46
      [] c = "/"   -> 47
      [] c = "0"   -> 48
      [] c = "1"   -> 49
      [] c = "2"   -> 50
      [] c = "3"   -> 51
      [] c = "4"   -> 52
      [] c = "5"   -> 53
      [] c = "6"   -> 54
      [] c = "7"   -> 55
      [] c = "8"   -> 56
      [] c = "9"   -> 57
      [] c = ";"   -> 59
      [] c = "A"   -> 65
      [] c = "B"   -> 66
      [] c = "Z"   -> 90
      [] c = "["   -> 91
      [] c = "_"   -> 95
      [] c = "TICK" -> 96
      [] c = "a"   -> 97
      [] c = "b"   -> 98
      [] c = "c"   -> 99
      [] c = "d"   -> 100
      [] c = "e"   -> 101
      [] c = "g"   -> 103
      [] c = "j"   -> 106
      [] c = "k"   -> 107
      [] c = "l"   -> 108
      [] c = "m"   -> 109
      [] c = "n"   -> 110
      [] c = "o"   -> 111
      [] c = "q"   -> 113
      [] c = "r"   -> 114
      [] c = "s"   -> 115
      [] c = "t"   -> 116
      [] c = "u"   -> 117
      [] c = "w"   -> 119
      [] c = "x"   -> 120

Str(s) == [i \in 1..Len(s) |-> Code(s[i])]

\* String.prototype.toLowerCase on the ASCII range
LowerChar(c) == IF c >= 65 /\ c <= 90 THEN c + 32 ELSE c
toLowerCase(s) == [i \in 1..Len(s) |-> LowerChar(s[i])]

\* String.prototype.includes
includes(s, t) ==
    \E i \in 0..(Len(s) - Len(t)) : \A j \in 1..Len(t) : s[i + j] = t[j]

\* String.prototype.split('\n')
RECURSIVE split(_)
split(s) ==
    IF \A i \in 1..Len(s) : s[i] # 10
    THEN <<s>>
    ELSE LET p == CHOOSE i \in 1..Len(s) :
                    s[i] = 10 /\ \A j \in 1..(i - 1) : s[j] # 10
         IN  <<SubSeq(s, 1, p - 1)>> \o split(SubSeq(s, p + 1, Len(s)))

\* String.prototype.trim: white space of the ASCII range
WhiteSpace == {9, 10, 11, 12, 13, 32}
trim(s) ==
    LET keep == {i \in 1..Len(s) : s[i] \notin WhiteSpace}
    IN  IF keep = {} THEN <<>>
        ELSE LET lo == CHOOSE i \in keep : \A j \in keep : i <= j
                 hi == CHOOSE i \in keep : \A j \in keep : j <= i
             IN  SubSeq(s, lo, hi)

\* String.prototype.substring(0, n)
PreviewLen == 80
substring0(s, n) == SubSeq(s, 1, IF Len(s) < n THEN Len(s) ELSE n)

(***************************************************************************)
(* The file system the program runs on.                                    *)
(***************************************************************************)
\* the documents under the scanned directory, in sorted order
AllFiles == <<"a.md", "b.md", "c.md", "d.md">>

\* the text of each document
Content(f) ==
    CASE f = "a.md" -> Str(<<"x", "NL", " ", "A", "b", " ">>)
      [] f = "b.md" -> Str(<<"b", "a">>)
      [] f = "c.md" -> Str(<<"q", "NL", "k", "NL", "j", "a">>)
      [] f = "d.md" -> Str(<<>>)

\* the lists findMarkdownFiles can hand to showFileSelector: sorted, non-empty
FileLists ==
    {SubSeq(AllFiles, 1, n) :
        n \in 1..(IF MaxFiles < Len(AllFiles) THEN MaxFiles ELSE Len(AllFiles))}

\* path.relative('.', file): the lists above hold normalised paths relative
\* to the working directory, which path.relative returns unchanged
relPath(f) == f

(***************************************************************************)
(* Key events: the chunks the raw-mode input stream delivers.              *)
(***************************************************************************)
KeyCtrlC     == <<3>>
KeyEscape    == <<27>>
KeyDel       == <<127>>
KeyBs        == <<8>>
KeyCr        == <<13>>
KeyLf        == <<10>>
KeyUp        == <<27, 91, 65>>
KeyDown      == <<27, 91, 66>>
KeyRight     == <<27, 91, 67>>
Keys ==
    {KeyCtrlC, KeyEscape, KeyDel, KeyBs, KeyCr, KeyLf, KeyUp, KeyDown, KeyRight}
    \cup {Str(<<c>>) : c \in {"k", "j", "q", "/", "a", "B"}}

VARIABLES
    pc,             \* "start", "selecting", "viewing", or how the process ended:
                    \* "exit0", "exit1", "uncaught" (uncaught exception), "killed"
    unreadable,     \* documents fs.readFileSync throws on
    files,          \* showFileSelector: files
    selected,       \* showFileSelector: selected
    searchMode,     \* showFileSelector: searchMode
    searchQuery,    \* showFileSelector: searchQuery
    searchResults,  \* showFileSelector: searchResults
    rawMode,        \* process.stdin raw mode
    paused,         \* process.stdin is paused
    listeners,      \* number of 'data' listeners on process.stdin
    tmpdir,         \* names (time stamps) of the mdview-*.txt files in os.tmpdir()
    child,          \* the pager process spawned last
    now,            \* the last reading of Date.now()
    stderr,         \* what was written to the error stream
    effects,        \* the effects of the handler that ran last, in program order
    other,          \* a second instance of the program, running on the same machine
    arg,            \* a function studied on its own: its input
    ret             \* a function studied on its own: its result

vars == <<pc, unreadable, files, selected, searchMode, searchQuery, searchResults,
          rawMode, paused, listeners, tmpdir, child, now, stderr, effects,
          other, arg, ret>>

selectorVars == <<files, selected, searchMode, searchQuery, searchResults>>
stdinVars == <<rawMode, paused, listeners>>
\* what the handlers of this instance never touch
auxVars == <<other, arg, ret>>

\* no second instance is showing a document
NoOther == [alive |-> FALSE, tmpFile |-> ""]

\* no function is studied on its own: no input, no result
NoCall == <<>>
NoResult == [done |-> FALSE, value |-> <<>>]

\* no pager was spawned yet
NoChild == [alive |-> FALSE, tmpFile |-> "", file |-> "", filename |-> "",
            args |-> <<>>, onClose |-> FALSE, exitCode |-> -1]

Running == pc \in {"start", "selecting", "viewing"}


(***************************************************************************)
(* searchInFiles                                                           *)
(***************************************************************************)
\* the lines are compared as they are, without toLowerCase
firstMatch_CaseSensitive(lines, lowerQuery) ==
    LET hits == {i \in 1..Len(lines) : includes(lines[i], lowerQuery)}
    IN  IF hits = {} THEN 0 ELSE CHOOSE i \in hits : \A j \in hits : i <= j

\* the 1-based number of the first line that contains lowerQuery, 0 if none
firstMatch(lines, lowerQuery) ==
    LET hits == {i \in 1..Len(lines) : includes(toLowerCase(lines[i]), lowerQuery)}
    IN  IF hits = {} THEN 0 ELSE CHOOSE i \in hits : \A j \in hits : i <= j

\* the body of the loop over the files: the results one file contributes
searchOne(file, lowerQuery) ==
    IF file \in unreadable
    THEN <<>>
    ELSE LET lines == split(Content(file))
             i == firstMatch(lines, lowerQuery)
         IN  IF i = 0 THEN <<>>
             ELSE <<[file    |-> file,
                     relPath |-> relPath(file),
                     line    |-> i,
                     preview |-> substring0(trim(lines[i]), PreviewLen)]>>

RECURSIVE searchLoop(_, _)
searchLoop(fl, lowerQuery) ==
    IF fl = <<>> THEN <<>>
    ELSE searchOne(Head(fl), lowerQuery) \o searchLoop(Tail(fl), lowerQuery)

searchInFiles(fl, query) == searchLoop(fl, toLowerCase(query))

(***************************************************************************)
(* showWithLess and the pager                                              *)
(***************************************************************************)
\* Date.now(): the millisecond clock never runs backwards; `now` is its last
\* reading
DateNow == now..MaxClock

\* path.join(os.tmpdir(), `mdview-${Date.now()}.txt`)
tmpFileName(t) == "mdview-" \o ToString(t) \o ".txt"

\* the argument list handed to spawn('less', ...)
lessArgs(startLine, tmpFile) ==
    <<"-R", "-i", "-M", "-Ps%Pb\\\\%", "-Pm%Pb\\\\%", "-PM%Pb\\\\%  ^/v:scroll  PgUp/PgDn:page  q:quit">>
    \o (IF startLine # 0 /\ startLine > 1 THEN <<"+" \o ToString(startLine)>> ELSE <<>>)
    \o <<tmpFile>>

\* showWithLess(content, filename, onClose, startLine): the artifact written
\* is the header made of `filename` and the rendering of the content of
\* `file`, both kept in the child's record; `file` is the document
\* whose content is shown, startLine = 0 stands for an absent argument,
\* `spawned` tells whether the pager could be started, `pre` is what the
\* caller did before the call, t is what Date.now() returns.  A pager that
\* cannot be started makes the child emit 'error', which has no listener: an
\* uncaught exception.
showWithLess(file, filename, onClose, startLine, spawned, pre, t) ==
    /\ now' = t
    /\ tmpdir' = tmpdir \cup {tmpFileName(t)}
    /\ IF spawned
       THEN /\ child' = [alive    |-> TRUE,
                         tmpFile  |-> tmpFileName(t),
                         file     |-> file,
                         filename |-> filename,
                         args     |-> lessArgs(startLine, tmpFileName(t)),
                         onClose  |-> onClose,
                         exitCode |-> -1]
            /\ pc' = "viewing"
            /\ stderr' = stderr
            /\ effects' = pre \o <<"write", "spawn">>
       ELSE /\ child' = [alive    |-> FALSE,
                         tmpFile  |-> tmpFileName(t),
                         file     |-> file,
                         filename |-> filename,
                         args     |-> lessArgs(startLine, tmpFileName(t)),
                         onClose  |-> onClose,
                         exitCode |-> -1]
            /\ pc' = "uncaught"
            /\ stderr' = stderr \cup {"uncaught: spawn less"}
            /\ effects' = pre \o <<"write", "spawn", "throw">>

(***************************************************************************)
(* showFileSelector                                                        *)
(***************************************************************************)
\* renderList: clear the screen, paint the list of the current mode
renderList == <<"clear", "paint">>

\* the terminal and input-stream calls of startSelector, in program order
startSelectorEffects == renderList \o <<"rawOn", "resume", "setEncoding", "listen">>

\* mutant of startSelector: the search state and the cursor are not reset
startSelector_KeepSearch ==
    /\ searchMode' = FALSE
    /\ UNCHANGED <<searchQuery, searchResults, selected>>
    /\ rawMode' = TRUE
    /\ paused' = FALSE
    /\ listeners' = listeners + 1
    /\ pc' = "selecting"

\* startSelector: reset the selector, redraw, take the keyboard
startSelector ==
    /\ searchMode' = FALSE
    /\ searchQuery' = <<>>
    /\ searchResults' = <<>>
    /\ selected' = 0
    /\ rawMode' = TRUE
    /\ paused' = FALSE
    /\ listeners' = listeners + 1
    /\ pc' = "selecting"

\* the calls that give the keyboard up before a document is opened
releaseEffects == <<"rawOff", "pause", "unlisten", "clear">>
\* the handler stays attached when the stream is handed to the pager
release_KeepListener ==
    /\ rawMode' = FALSE
    /\ paused' = TRUE
    /\ listeners' = listeners

\* mutant of release: raw mode is left on when a document is opened
release_KeepRaw ==
    /\ rawMode' = rawMode
    /\ paused' = TRUE
    /\ listeners' = 0

release ==
    /\ rawMode' = FALSE
    /\ paused' = TRUE
    /\ listeners' = 0

\* the handler runs for a key when it is attached and the stream flows
Accepting == pc = "selecting" /\ listeners >= 1 /\ ~paused

\* Ctrl+C handled in Browse mode only
HandleCtrlC_BrowseOnly(key) ==
    /\ Accepting /\ ~searchMode
    /\ key = KeyCtrlC
    /\ pc' = "exit0"
    /\ effects' = <<"clear", "exit">>
    /\ UNCHANGED <<unreadable, selectorVars, stdinVars, tmpdir, child, now,
                   stderr>>
    /\ UNCHANGED auxVars

\* Ctrl+C
HandleCtrlC(key) ==
    /\ Accepting
    /\ key = KeyCtrlC
    /\ pc' = "exit0"
    /\ effects' = <<"clear", "exit">>
    /\ UNCHANGED <<unreadable, selectorVars, stdinVars, tmpdir, child, now,
                   stderr>>
    /\ UNCHANGED auxVars

\* search mode, Escape
SearchEscape(key) ==
    /\ Accepting /\ key # KeyCtrlC /\ searchMode
    /\ key = KeyEscape /\ Len(key) = 1
    /\ searchMode' = FALSE
    /\ searchQuery' = <<>>
    /\ searchResults' = <<>>
    /\ selected' = 0
    /\ effects' = renderList
    /\ UNCHANGED <<pc, unreadable, files, stdinVars, tmpdir, child, now,
                   stderr>>
    /\ UNCHANGED auxVars

\* String.prototype.slice(0, -1)
dropLast(s) == SubSeq(s, 1, Len(s) - 1)

\* Backspace searches again without testing for an empty query
SearchBackspace_NoEmptyGuard(key) ==
    /\ Accepting /\ key # KeyCtrlC /\ searchMode
    /\ ~(key = KeyEscape /\ Len(key) = 1)
    /\ key = KeyDel \/ key = KeyBs
    /\ searchQuery' = dropLast(searchQuery)
    /\ searchResults' = searchInFiles(files, searchQuery')
    /\ selected' = 0
    /\ effects' = renderList
    /\ UNCHANGED <<pc, unreadable, files, searchMode, stdinVars, tmpdir, child,
                   now, stderr>>
    /\ UNCHANGED auxVars

\* search mode, Backspace
SearchBackspace(key) ==
    /\ Accepting /\ key # KeyCtrlC /\ searchMode
    /\ ~(key = KeyEscape /\ Len(key) = 1)
    /\ key = KeyDel \/ key = KeyBs
    /\ searchQuery' = dropLast(searchQuery)
    /\ searchResults' = IF Len(searchQuery') > 0
                        THEN searchInFiles(files, searchQuery')
                        ELSE <<>>
    /\ selected' = 0
    /\ effects' = renderList
    /\ UNCHANGED <<pc, unreadable, files, searchMode, stdinVars, tmpdir, child,
                   now, stderr>>
    /\ UNCHANGED auxVars

isEnter(key) == key = KeyCr \/ key = KeyLf

\* search mode, Enter: open the selected result at its line
SearchEnter(key) ==
    /\ Accepting /\ key # KeyCtrlC /\ searchMode
    /\ isEnter(key)
    /\ IF Len(searchResults) > 0
       THEN /\ release
            /\ LET result == searchResults[selected + 1]
               IN  IF result.file \in unreadable
                   THEN \* fs.readFileSync throws inside the listener
                        /\ pc' = "uncaught"
                        /\ stderr' = stderr \cup {"uncaught: read"}
                        /\ effects' = releaseEffects \o <<"read", "throw">>
                        /\ UNCHANGED <<tmpdir, child, now>>
                   ELSE \E spawned \in BOOLEAN, t \in DateNow :
                            showWithLess(result.file, result.relPath, TRUE,
                                         result.line, spawned,
                                         releaseEffects \o <<"read">>, t)
            /\ UNCHANGED <<unreadable, selectorVars>>
       ELSE /\ effects' = <<>>
            /\ UNCHANGED <<pc, unreadable, selectorVars, stdinVars, tmpdir,
                           child, now, stderr>>
    /\ UNCHANGED auxVars

\* the up arrow moves the cursor without testing for results
SearchUp_NoGuard(key) ==
    /\ Accepting /\ key # KeyCtrlC /\ searchMode
    /\ key = KeyUp
    /\ selected' = IF selected > 0 THEN selected - 1
                   ELSE Len(searchResults) - 1
    /\ effects' = renderList
    /\ UNCHANGED <<pc, unreadable, files, searchMode, searchQuery, searchResults,
                   stdinVars, tmpdir, child, now, stderr>>
    /\ UNCHANGED auxVars

\* search mode, up arrow
SearchUp(key) ==
    /\ Accepting /\ key # KeyCtrlC /\ searchMode
    /\ key = KeyUp
    /\ selected' = IF Len(searchResults) > 0
                   THEN (IF selected > 0 THEN selected - 1
                         ELSE Len(searchResults) - 1)
                   ELSE selected
    /\ effects' = renderList
    /\ UNCHANGED <<pc, unreadable, files, searchMode, searchQuery, searchResults,
                   stdinVars, tmpdir, child, now, stderr>>
    /\ UNCHANGED auxVars

\* search mode, down arrow
SearchDown(key) ==
    /\ Accepting /\ key # KeyCtrlC /\ searchMode
    /\ key = KeyDown
    /\ selected' = IF Len(searchResults) > 0
                   THEN (IF selected < Len(searchResults) - 1 THEN selected + 1
                         ELSE 0)
                   ELSE selected
    /\ effects' = renderList
    /\ UNCHANGED <<pc, unreadable, files, searchMode, searchQuery, searchResults,
                   stdinVars, tmpdir, child, now, stderr>>
    /\ UNCHANGED auxVars

\* key.length === 1 && key >= ' '
isPrintable(key) == Len(key) = 1 /\ key[1] >= 32

\* the keys the branches before the printable one take
searchTaken(key) ==
    \/ key = KeyEscape /\ Len(key) = 1
    \/ key = KeyDel \/ key = KeyBs
    \/ isEnter(key)
    \/ key = KeyUp
    \/ key = KeyDown

\* mutant of SearchPrintable: the cursor is not reset after the new search
SearchPrintable_KeepCursor(key) ==
    /\ Accepting /\ key # KeyCtrlC /\ searchMode
    /\ ~searchTaken(key)
    /\ isPrintable(key)
    /\ Len(searchQuery) < MaxQuery
    /\ searchQuery' = searchQuery \o key
    /\ searchResults' = searchInFiles(files, searchQuery')
    /\ selected' = selected
    /\ effects' = renderList
    /\ UNCHANGED <<pc, unreadable, files, searchMode, stdinVars, tmpdir, child,
                   now, stderr>>
    /\ UNCHANGED auxVars

\* search mode, printable character: extend the query and search again
SearchPrintable(key) ==
    /\ Accepting /\ key # KeyCtrlC /\ searchMode
    /\ ~searchTaken(key)
    /\ isPrintable(key)
    /\ Len(searchQuery) < MaxQuery
    /\ searchQuery' = searchQuery \o key
    /\ searchResults' = searchInFiles(files, searchQuery')
    /\ selected' = 0
    /\ effects' = renderList
    /\ UNCHANGED <<pc, unreadable, files, searchMode, stdinVars, tmpdir, child,
                   now, stderr>>
    /\ UNCHANGED auxVars

\* search mode, any other key: the final return
SearchIgnore(key) ==
    /\ Accepting /\ key # KeyCtrlC /\ searchMode
    /\ ~searchTaken(key)
    /\ ~isPrintable(key)
    /\ effects' = <<>>
    /\ UNCHANGED <<pc, unreadable, selectorVars, stdinVars, tmpdir, child, now,
                   stderr>>
    /\ UNCHANGED auxVars

\* 'q' ends the process without clearing the screen
NormalQuit_NoClear(key) ==
    /\ Accepting /\ key # KeyCtrlC /\ ~searchMode
    /\ key = Str(<<"q">>)
    /\ pc' = "exit0"
    /\ effects' = <<"exit">>
    /\ UNCHANGED <<unreadable, selectorVars, stdinVars, tmpdir, child, now,
                   stderr>>
    /\ UNCHANGED auxVars

\* normal mode, q
NormalQuit(key) ==
    /\ Accepting /\ key # KeyCtrlC /\ ~searchMode
    /\ key = Str(<<"q">>)
    /\ pc' = "exit0"
    /\ effects' = <<"clear", "exit">>
    /\ UNCHANGED <<unreadable, selectorVars, stdinVars, tmpdir, child, now,
                   stderr>>
    /\ UNCHANGED auxVars

\* normal mode, /: enter search mode
NormalSlash(key) ==
    /\ Accepting /\ key # KeyCtrlC /\ ~searchMode
    /\ key = Str(<<"/">>)
    /\ searchMode' = TRUE
    /\ searchQuery' = <<>>
    /\ searchResults' = <<>>
    /\ selected' = 0
    /\ effects' = renderList
    /\ UNCHANGED <<pc, unreadable, files, stdinVars, tmpdir, child, now,
                   stderr>>
    /\ UNCHANGED auxVars

\* normal mode, Enter: open the file at the cursor
NormalEnter(key) ==
    /\ Accepting /\ key # KeyCtrlC /\ ~searchMode
    /\ isEnter(key)
    /\ release
    /\ IF files[selected + 1] \in unreadable
       THEN \* fs.readFileSync throws inside the listener
            /\ pc' = "uncaught"
            /\ stderr' = stderr \cup {"uncaught: read"}
            /\ effects' = releaseEffects \o <<"read", "throw">>
            /\ UNCHANGED <<tmpdir, child, now>>
       ELSE \E spawned \in BOOLEAN, t \in DateNow :
                showWithLess(files[selected + 1], relPath(files[selected + 1]),
                             TRUE, 0, spawned, releaseEffects \o <<"read">>, t)
    /\ UNCHANGED <<unreadable, selectorVars>>
    /\ UNCHANGED auxVars

isUp(key) == key = KeyUp \/ key = Str(<<"k">>)
isDown(key) == key = KeyDown \/ key = Str(<<"j">>)

\* selected > 0 ? selected - 1 : files.length - 1
cursorUp(c, n) == IF c > 0 THEN c - 1 ELSE n - 1

\* the cursor stops at the last entry
cursorDown_NoWrap(c, n) == IF c < n - 1 THEN c + 1 ELSE c

\* selected < files.length - 1 ? selected + 1 : 0
cursorDown(c, n) == IF c < n - 1 THEN c + 1 ELSE 0

\* normal mode, up arrow or k
NormalUp(key) ==
    /\ Accepting /\ key # KeyCtrlC /\ ~searchMode
    /\ isUp(key)
    /\ selected' = cursorUp(selected, Len(files))
    /\ effects' = renderList
    /\ UNCHANGED <<pc, unreadable, files, searchMode, searchQuery, searchResults,
                   stdinVars, tmpdir, child, now, stderr>>
    /\ UNCHANGED auxVars

\* normal mode, down arrow or j
NormalDown(key) ==
    /\ Accepting /\ key # KeyCtrlC /\ ~searchMode
    /\ isDown(key)
    /\ selected' = cursorDown(selected, Len(files))
    /\ effects' = renderList
    /\ UNCHANGED <<pc, unreadable, files, searchMode, searchQuery, searchResults,
                   stdinVars, tmpdir, child, now, stderr>>
    /\ UNCHANGED auxVars

\* normal mode, any other key
NormalIgnore(key) ==
    /\ Accepting /\ key # KeyCtrlC /\ ~searchMode
    /\ key # Str(<<"q">>) /\ key # Str(<<"/">>) /\ ~isEnter(key)
    /\ ~isUp(key) /\ ~isDown(key)
    /\ effects' = <<>>
    /\ UNCHANGED <<pc, unreadable, selectorVars, stdinVars, tmpdir, child, now,
                   stderr>>
    /\ UNCHANGED auxVars

inputHandler(key) ==
    \/ HandleCtrlC(key)
    \/ SearchEscape(key)
    \/ SearchBackspace(key)
    \/ SearchEnter(key)
    \/ SearchUp(key)
    \/ SearchDown(key)
    \/ SearchPrintable(key)
    \/ SearchIgnore(key)
    \/ NormalQuit(key)
    \/ NormalSlash(key)
    \/ NormalEnter(key)
    \/ NormalUp(key)
    \/ NormalDown(key)
    \/ NormalIgnore(key)


(***************************************************************************)
(* The pager exits: the 'close' listener of showWithLess                   *)
(***************************************************************************)
\* fs.unlinkSync(tmpFile) throws when the file is not there any more; the
\* listener is then left by the exception, an uncaught one
ChildClose(code) ==
    /\ pc = "viewing"
    /\ child.alive
    /\ child' = [child EXCEPT !.alive = FALSE, !.exitCode = code]
    /\ IF child.tmpFile \notin tmpdir
       THEN /\ pc' = "uncaught"
            /\ stderr' = stderr \cup {"uncaught: unlink"}
            /\ effects' = <<"unlink", "throw">>
            /\ UNCHANGED <<selectorVars, stdinVars, tmpdir>>
       ELSE /\ tmpdir' = tmpdir \ {child.tmpFile}
            /\ IF child.onClose
               THEN /\ startSelector
                    /\ effects' = <<"unlink">> \o startSelectorEffects
                    /\ UNCHANGED <<files, stderr>>
               ELSE /\ pc' = "exit0"
                    /\ effects' = <<"unlink", "exit">>
                    /\ UNCHANGED <<selectorVars, stdinVars, stderr>>
    /\ UNCHANGED <<unreadable, now>>
    /\ UNCHANGED auxVars

(***************************************************************************)
(* main                                                                    *)
(***************************************************************************)
\* -h / --help
MainHelp ==
    /\ pc = "start"
    /\ pc' = "exit0"
    /\ effects' = <<"help">>
    /\ UNCHANGED <<unreadable, selectorVars, stdinVars, tmpdir, child, now,
                   stderr>>
    /\ UNCHANGED auxVars

\* no argument and standard input is not a terminal: the piped text is shown
\* if it is not blank, with no continuation
MainStdin(blank, spawned, t) ==
    /\ pc = "start"
    /\ IF blank
       THEN /\ pc' = "exit0"
            /\ effects' = <<"stdin">>
            /\ UNCHANGED <<tmpdir, child, now, stderr>>
       ELSE showWithLess("stdin", "stdin", FALSE, 0, spawned, <<"stdin">>, t)
    /\ UNCHANGED <<unreadable, selectorVars, stdinVars>>
    /\ UNCHANGED auxVars

\* the target does not exist
MainNotFound ==
    /\ pc = "start"
    /\ pc' = "exit1"
    /\ stderr' = stderr \cup {"Error: Not found"}
    /\ effects' = <<"error", "exit">>
    /\ UNCHANGED <<unreadable, selectorVars, stdinVars, tmpdir, child, now>>
    /\ UNCHANGED auxVars

\* the message is printed for an empty directory but the selector starts anyway
MainEmptyDirectory_NoExit ==
    /\ pc = "start"
    /\ files' = <<>>
    /\ startSelector
    /\ stderr' = stderr \cup {"No markdown files found"}
    /\ effects' = <<"error">> \o startSelectorEffects
    /\ UNCHANGED <<unreadable, tmpdir, child, now>>
    /\ UNCHANGED auxVars

\* the target is a directory in which findMarkdownFiles finds nothing
MainEmptyDirectory ==
    /\ pc = "start"
    /\ pc' = "exit1"
    /\ stderr' = stderr \cup {"No markdown files found"}
    /\ effects' = <<"error", "exit">>
    /\ UNCHANGED <<unreadable, selectorVars, stdinVars, tmpdir, child, now>>
    /\ UNCHANGED auxVars

\* the target is a directory with documents: showFileSelector(mdFiles)
MainDirectory(mdFiles) ==
    /\ pc = "start"
    /\ Len(mdFiles) # 0
    /\ files' = mdFiles
    /\ startSelector
    /\ effects' = startSelectorEffects
    /\ UNCHANGED <<unreadable, tmpdir, child, now, stderr>>
    /\ UNCHANGED auxVars

\* the target is a file: it is shown with no continuation; a read error is
\* caught by main().catch
MainFile(target, spawned, t) ==
    /\ pc = "start"
    /\ IF target \in unreadable
       THEN /\ pc' = "exit1"
            /\ stderr' = stderr \cup {"Error: read"}
            /\ effects' = <<"read", "error", "exit">>
            /\ UNCHANGED <<tmpdir, child, now>>
       ELSE showWithLess(target, target, FALSE, 0, spawned, <<"read">>, t)
    /\ UNCHANGED <<unreadable, selectorVars, stdinVars>>
    /\ UNCHANGED auxVars

(***************************************************************************)
(* The environment                                                         *)
(***************************************************************************)
\* a listed document stops being readable (removed, permissions changed)
BecomeUnreadable(f) ==
    /\ Running
    /\ f \notin unreadable
    /\ unreadable' = unreadable \cup {f}
    /\ UNCHANGED <<pc, selectorVars, stdinVars, tmpdir, child, now, stderr, effects>>
    /\ UNCHANGED auxVars

\* another process removes a file from the shared temporary directory
TmpRemoved(t) ==
    /\ pc = "viewing"
    /\ t \in tmpdir
    /\ tmpdir' = tmpdir \ {t}
    /\ UNCHANGED <<pc, unreadable, selectorVars, stdinVars, child, now,
                   stderr, effects>>
    /\ UNCHANGED auxVars

\* SIGINT reaches the process while the pager owns the terminal (the
\* terminal is not in raw mode then, so Ctrl+C is a signal to the foreground
\* process group); the program installs no handler and is terminated
Interrupt ==
    /\ pc = "viewing"
    /\ pc' = "killed"
    /\ effects' = <<"SIGINT">>
    /\ UNCHANGED <<unreadable, selectorVars, stdinVars, tmpdir, child, now,
                   stderr>>
    /\ UNCHANGED auxVars

(***************************************************************************)
(* The specification                                                       *)
(***************************************************************************)
\* the documents that exist: the longest list of FileLists
DocumentNames == UNION {{fl[i] : i \in DOMAIN fl} : fl \in FileLists}

Init ==
    /\ pc = "start"
    /\ unreadable = {}
    /\ files = <<>>
    /\ selected = 0
    /\ searchMode = FALSE
    /\ searchQuery = <<>>
    /\ searchResults = <<>>
    /\ rawMode = FALSE
    /\ paused = TRUE
    /\ listeners = 0
    /\ tmpdir = {}
    /\ child = NoChild
    /\ now = 0
    /\ stderr = {}
    /\ effects = <<>>
    /\ other = NoOther
    /\ arg = NoCall
    /\ ret = NoResult

Next ==
    \/ MainHelp
    \/ \E blank \in BOOLEAN, spawned \in BOOLEAN, t \in DateNow :
            MainStdin(blank, spawned, t)
    \/ MainNotFound
    \/ MainEmptyDirectory
    \/ \E mdFiles \in FileLists : MainDirectory(mdFiles)
    \/ \E target \in DocumentNames, spawned \in BOOLEAN, t \in DateNow :
            MainFile(target, spawned, t)
    \/ \E key \in Keys : inputHandler(key)
    \/ \E code \in {0, 1} : ChildClose(code)
    \/ \E f \in DocumentNames : BecomeUnreadable(f)
    \/ \E t \in tmpdir : TmpRemoved(t)
    \/ Interrupt

Spec == Init /\ [][Next]_vars


(***************************************************************************)
(* Properties                                                              *)
(***************************************************************************)
\* the list the cursor points into
activeList == IF searchMode THEN searchResults ELSE files

\* the process ended, in whatever way
Ended == pc \in {"exit0", "exit1", "uncaught", "killed"}

\* the handler that ran last was the pager's 'close' listener and it ran the
\* continuation startSelector
Resumed == pc = "selecting" /\ effects # <<>> /\ effects[1] = "unlink"

\* C1: once showFileSelector(files) has run on a non-empty list, whatever keys
\* and view sessions follow, the cursor is an index of the active list (files
\* in Browse mode, searchResults in Search mode) when that list is non-empty,
\* and 0 when it is empty.
C1_CursorInRange ==
    files # <<>> =>
        IF Len(activeList) > 0
        THEN 0 <= selected /\ selected < Len(activeList)
        ELSE selected = 0

\* C1 witness: after a view session, in Search mode, the cursor stands on the
\* last of several results.
C1_Witness ==
    /\ pc = "selecting" /\ child.exitCode # -1
    /\ searchMode /\ Len(searchResults) > 1
    /\ selected = Len(searchResults) - 1

\* C2: the step that enters Search mode and every step that returns to Browse
\* mode (Escape, the continuation after a pager exit) leave an empty query,
\* no results and cursor 0; and in every Browse state the query and the
\* results are empty.
C2_ModeChangeClears ==
    /\ [](~searchMode => searchQuery = <<>> /\ searchResults = <<>>)
    /\ [][(searchMode' # searchMode \/ (pc = "viewing" /\ pc' = "selecting"))
            => (searchQuery' = <<>> /\ searchResults' = <<>> /\ selected' = 0)]_vars

\* C2 witness: Search mode was entered again, with nothing left of the query
\* of an earlier search whose result had been opened at its line and closed.
C2_Witness ==
    /\ pc = "selecting" /\ searchMode
    /\ searchQuery = <<>> /\ searchResults = <<>> /\ selected = 0
    /\ child.exitCode # -1 /\ Len(child.args) = 8


\* the result the cursor stands on in Search mode
selectedResult == searchResults[selected + 1]

\* the continuation ran: Browse mode, cursor 0, nothing left of a search
BackInBrowse ==
    /\ pc = "selecting" /\ ~searchMode
    /\ selected = 0 /\ searchQuery = <<>> /\ searchResults = <<>>

\* C3: in Search mode with results, Enter launches the pager on the file of
\* the result at the cursor, at that result's line (a +line argument iff the
\* line is greater than 1), and when that pager exits the selector is in
\* Browse mode with cursor 0, empty query and no results.
C3_SearchEnterOpensAndReturns ==
    /\ [][(searchMode /\ Len(searchResults) > 0 /\ \E key \in Keys : SearchEnter(key))
            => /\ pc' = "viewing" /\ child'.alive
               /\ child'.file = selectedResult.file
               /\ child'.args = lessArgs(selectedResult.line, child'.tmpFile)
               /\ (selectedResult.line > 1
                     <=> \E i \in DOMAIN child'.args :
                            child'.args[i] = "+" \o ToString(selectedResult.line))]_vars
    /\ [][(pc = "viewing" /\ searchMode /\ \E code \in {0, 1} : ChildClose(code))
            => BackInBrowse']_vars

\* C3, the part the code keeps: whenever the pager does start on Enter in
\* Search mode it shows the selected result's file at the result's line, and
\* whenever the continuation runs after it the selector is back in Browse.
C3_WhenLaunchedAndResumed ==
    /\ [][(searchMode /\ pc = "selecting" /\ pc' = "viewing")
            => /\ child'.alive
               /\ child'.file = selectedResult.file
               /\ child'.args = lessArgs(selectedResult.line, child'.tmpFile)
               /\ (selectedResult.line > 1
                     <=> \E i \in DOMAIN child'.args :
                            child'.args[i] = "+" \o ToString(selectedResult.line))]_vars
    /\ [][(pc = "viewing" /\ searchMode /\ pc' = "selecting") => BackInBrowse']_vars

\* C4: in Browse mode Enter launches the pager on the file at the cursor with
\* no +line argument, and when that pager exits the selector is in Browse mode
\* with cursor 0, for every cursor and after any number of view sessions.
C4_BrowseEnterOpensAndReturns ==
    /\ [][(~searchMode /\ \E key \in Keys : NormalEnter(key))
            => /\ pc' = "viewing" /\ child'.alive
               /\ child'.file = files[selected + 1]
               /\ child'.args = lessArgs(0, child'.tmpFile)
               /\ Len(child'.args) = 7]_vars
    /\ [][(pc = "viewing" /\ ~searchMode /\ child.onClose
             /\ \E code \in {0, 1} : ChildClose(code))
            => BackInBrowse']_vars

\* C4, the part the code keeps: whenever the pager does start on Enter in
\* Browse mode it shows the file at the cursor with no +line argument, and
\* whenever the continuation runs after it the cursor is 0 again.
C4_WhenLaunchedAndResumed ==
    /\ [][(~searchMode /\ pc = "selecting" /\ pc' = "viewing")
            => /\ child'.alive
               /\ child'.file = files[selected + 1]
               /\ Len(child'.args) = 7]_vars
    /\ [][(pc = "viewing" /\ ~searchMode /\ pc' = "selecting") => BackInBrowse']_vars

\* position of an effect in the list of the last handler, 0 if it is absent
effectAt(e) ==
    IF \E i \in DOMAIN effects : effects[i] = e
    THEN CHOOSE i \in DOMAIN effects : effects[i] = e
    ELSE 0

\* C5 as claimed: raw mode is off whenever the pager is alive, and turning
\* it on again is the first thing the continuation does when it resumes
\* (the effect right after the artifact's removal).
C5_RawModeFirstOnResume ==
    /\ child.alive => ~rawMode
    /\ Resumed => effects[2] = "rawOn"

\* C5 amended: raw mode is off whenever the pager is alive and was turned off
\* before the pager was spawned; the continuation that resumes the selector
\* turns it on again after it has redrawn the list and before it attaches
\* the key handler, so it is on whenever keys are accepted.
C5_RawModeHandOver ==
    /\ child.alive => ~rawMode
    /\ (effectAt("spawn") # 0 /\ effectAt("rawOff") # 0)
         => effectAt("rawOff") < effectAt("spawn")
    /\ Resumed => /\ rawMode
                  /\ effectAt("paint") < effectAt("rawOn")
                  /\ effectAt("rawOn") < effectAt("listen")
    /\ Accepting => rawMode

\* C5 witness: the selector has resumed after a pager that it had started
\* from the list with raw mode off.
C5_Witness ==
    Resumed /\ rawMode /\ ~child.alive /\ child.onClose /\ listeners = 1


\* C6: whenever the pager exits, with whatever status, the artifact written
\* for the session is gone when the 'close' listener is done, and the listener
\* either ran the continuation (a view opened from the list) or ended the
\* process with status 0 (a view with no continuation); a selector is never
\* entered for a target shown with no continuation.
C6_CloseDeletesThenContinuesOrExits ==
    /\ [][(\E code \in {0, 1} : ChildClose(code))
            => /\ child.tmpFile \notin tmpdir'
               /\ \/ child.onClose /\ pc' = "selecting"
                  \/ ~child.onClose /\ pc' = "exit0"]_vars
    /\ [](pc = "selecting" => files # <<>> /\ (child = NoChild \/ child.onClose))

\* C6, the part the code keeps: when the artifact is still there at the
\* pager's exit it is removed, and then the continuation runs or the process
\* ends with status 0.
C6_WhenArtifactPresent ==
    /\ [][(child.tmpFile \in tmpdir /\ \E code \in {0, 1} : ChildClose(code))
            => /\ child.tmpFile \notin tmpdir'
               /\ \/ child.onClose /\ pc' = "selecting"
                  \/ ~child.onClose /\ pc' = "exit0"]_vars
    /\ [](pc = "selecting" => files # <<>> /\ (child = NoChild \/ child.onClose))

\* C7: when the artifact cannot be deleted at the pager's exit, the
\* continuation still runs (the selector is back in Browse mode), or, with no
\* continuation, the process still ends with status 0.
C7_DeleteFailureDoesNotAbort ==
    [][(child.tmpFile \notin tmpdir /\ \E code \in {0, 1} : ChildClose(code))
         => IF child.onClose THEN BackInBrowse' ELSE pc' = "exit0"]_vars

\* Enter is pressed on a document that cannot be read
EnterOnUnreadable ==
    \/ /\ ~searchMode
       /\ files # <<>>
       /\ files[selected + 1] \in unreadable
       /\ \E key \in Keys : NormalEnter(key)
    \/ /\ searchMode
       /\ Len(searchResults) > 0
       /\ selectedResult.file \in unreadable
       /\ \E key \in Keys : SearchEnter(key)

\* C8: Enter on a document that cannot be read reports the condition, starts
\* no pager and leaves the selector in the same mode at the same cursor,
\* accepting keys (raw mode on, handler attached).
C8_UnreadableKeepsSelector ==
    [][EnterOnUnreadable
         => /\ pc' = "selecting"
            /\ UNCHANGED <<searchMode, selected, searchQuery, searchResults>>
            /\ UNCHANGED <<child, tmpdir>>
            /\ rawMode' /\ ~paused' /\ listeners' >= 1
            /\ stderr' # stderr]_vars

\* the handler that ran last called showWithLess and the pager did not start
spawnFailed ==
    /\ Len(effects) >= 2
    /\ effects[Len(effects)] = "throw"
    /\ effects[Len(effects) - 1] = "spawn"

\* C9: when the pager cannot be started for a view opened from the list, the
\* failure is reported and the selector accepts keys again; only for a view
\* with no continuation does the process end, with a non-zero status.
C9_LaunchFailureKeepsSelector ==
    spawnFailed =>
        /\ stderr # {}
        /\ IF child.onClose
           THEN Accepting /\ rawMode
           ELSE pc \in {"exit1", "uncaught"}

\* C10: no artifact is left behind by a process that was interrupted while a
\* view session was active.
C10_NoArtifactAfterInterrupt ==
    pc = "killed" => tmpdir = {}

\* the key 'q'
KeyQ == Str(<<"q">>)

\* C11 as stated: whenever the handler runs for 'q', in Browse mode or in
\* Search mode, it clears the screen and ends the process with status 0.
C11_QuitFromEitherMode ==
    [][inputHandler(KeyQ) => pc' = "exit0" /\ effects' = <<"clear", "exit">>]_vars

\* C11: 'q' ends the process (screen cleared, status 0) in Browse mode, where
\* the handler always accepts it; in Search mode 'q' is a character of the
\* query: it is appended, the results are recomputed, the cursor returns to 0
\* and the selector stays in Search mode.
C11_QuitFromBrowseOnly ==
    /\ [](Accepting /\ ~searchMode => ENABLED NormalQuit(KeyQ))
    /\ [][inputHandler(KeyQ) =>
            IF searchMode
            THEN /\ pc' = "selecting" /\ searchMode'
                 /\ searchQuery' = Append(searchQuery, Code("q"))
                 /\ searchResults' = searchInFiles(files, searchQuery')
                 /\ selected' = 0
            ELSE pc' = "exit0" /\ effects' = <<"clear", "exit">>]_vars

\* C11 witness: 'q' was typed in Search mode and the selector still accepts keys.
C11_Witness ==
    /\ Accepting /\ searchMode
    /\ searchQuery # <<>> /\ searchQuery[Len(searchQuery)] = Code("q")
    /\ effects = renderList

\* C12: in every state in which the selector accepts keys, whatever the mode,
\* the cursor and the query, Ctrl+C is handled, clears the screen and ends the
\* process with status 0; nothing happens after that exit.
C12_CtrlCTerminates ==
    /\ [](Accepting => ENABLED HandleCtrlC(KeyCtrlC))
    /\ [][inputHandler(KeyCtrlC) =>
            pc' = "exit0" /\ effects' = <<"clear", "exit">>]_vars
    /\ [][pc # "exit0"]_vars

\* C12 witness: the process ended on Ctrl+C in Search mode with a query typed
\* and the cursor moved.
C12_Witness ==
    /\ pc = "exit0" /\ effects = <<"clear", "exit">>
    /\ searchMode /\ searchQuery # <<>> /\ selected > 0

\* main reported a target that does not exist or a directory without documents
DiscoveryFailed ==
    "Error: Not found" \in stderr \/ "No markdown files found" \in stderr

\* C13: when the target does not exist, or is a directory in which no document
\* is found, the process ends with status 1 and the selector is never entered:
\* raw mode stays off, no key handler is attached, no pager is spawned and no
\* artifact is written.
C13_DiscoveryErrorsExitOne ==
    DiscoveryFailed =>
        /\ pc = "exit1"
        /\ ~rawMode /\ paused /\ listeners = 0
        /\ files = <<>>
        /\ child = NoChild /\ tmpdir = {}

\* C13 witness: main found a directory without documents and ended.
C13_Witness ==
    /\ "No markdown files found" \in stderr
    /\ effects = <<"error", "exit">>
    /\ Ended

(***************************************************************************)
(* searchInFiles on its own: every file list, every set of unreadable      *)
(* documents, every query of the bounded length.                           *)
(***************************************************************************)
\* the characters a query is typed from: the keys the printable branch takes
QueryChars == {key[1] : key \in {k \in Keys : isPrintable(k) /\ ~searchTaken(k)}}

\* the queries of at most MaxQuery characters, the empty one included
Queries == UNION {[1..n -> QueryChars] : n \in 0..MaxQuery}

\* the state main starts in, with no call made
Idle ==
    /\ pc = "start"
    /\ files = <<>>
    /\ selected = 0
    /\ searchMode = FALSE
    /\ searchQuery = <<>>
    /\ searchResults = <<>>
    /\ rawMode = FALSE
    /\ paused = TRUE
    /\ listeners = 0
    /\ tmpdir = {}
    /\ child = NoChild
    /\ now = 0
    /\ stderr = {}
    /\ effects = <<>>
    /\ other = NoOther
    /\ ret = NoResult

InitSearch ==
    /\ Idle
    /\ unreadable \in SUBSET DocumentNames
    /\ arg \in [fn : {"searchInFiles"}, files : FileLists, query : Queries]

\* const results = searchInFiles(files, query)
CallSearchInFiles ==
    /\ arg.fn = "searchInFiles" /\ ~ret.done
    /\ ret' = [done |-> TRUE, value |-> searchInFiles(arg.files, arg.query)]
    /\ UNCHANGED <<pc, unreadable, selectorVars, stdinVars, tmpdir, child, now,
                   stderr, effects, other, arg>>

NextSearch == CallSearchInFiles

SpecSearch == InitSearch /\ [][NextSearch]_vars

matchOffsets(text, query) ==
    {i \in 0..(Len(text) - Len(query)) :
        \A j \in 1..Len(query) : LowerChar(text[i + j]) = LowerChar(query[j])}

\* the 1-based number of the line the character after offset i stands on
lineOfOffset(text, i) == 1 + Cardinality({p \in 1..i : text[p] = 10})

\* the lines of a document that hold a query without a line break
matchLines(file, query) ==
    {lineOfOffset(Content(file), i) : i \in matchOffsets(Content(file), query)}

\* the place of a document in a list of distinct documents
indexIn(fl, file) == CHOOSE k \in DOMAIN fl : fl[k] = file

BackspaceKeys == {key \in Keys : key = KeyDel \/ key = KeyBs}
QueryKeys == {key \in Keys : isPrintable(key) /\ ~searchTaken(key)}

\* C16: in Search mode, after every Backspace and every printable key, the
\* selector is still in Search mode, the result list is searchInFiles(files,
\* query) for the new query when it is non-empty and empty when it is empty,
\* and the cursor is 0; Backspace removes exactly the last character (an empty
\* query stays empty), a printable character is appended at the end.
C16_ResultsFollowQuery ==
    [][searchMode /\ Accepting =>
        IF searchQuery' # searchQuery /\ searchMode'
        THEN \* a Backspace or a printable key: no other step changes the query
             \* and stays in Search mode
             /\ \/ searchQuery' = dropLast(searchQuery)
                \/ \E key \in QueryKeys : searchQuery' = Append(searchQuery, key[1])
             /\ pc' = "selecting" /\ files' = files
             /\ searchResults' = IF searchQuery' = <<>>
                                 THEN <<>>
                                 ELSE searchInFiles(files, searchQuery')
             /\ selected' = 0
        ELSE \* the query is left as it is only by Backspace on an empty query
             /\ \A key \in QueryKeys : ~SearchPrintable(key)
             /\ \A key \in BackspaceKeys :
                    SearchBackspace(key) =>
                        /\ searchQuery = <<>> /\ searchMode'
                        /\ searchResults' = <<>> /\ selected' = 0]_vars

\* C16 witness: a second character was typed in Search mode, in upper case,
\* and the list shows the document that holds the two letters in lower case.
C16_Witness ==
    /\ Accepting /\ searchMode
    /\ searchQuery = Str(<<"a", "B">>)
    /\ searchResults # <<>> /\ searchResults[1].line = 2
    /\ selected = 0
    /\ effects = renderList

(***************************************************************************)
(* findMarkdownFiles on its own: every directory listing of the bounded    *)
(* size, in every order readdirSync can deliver it.                        *)
(***************************************************************************)
\* String.prototype.startsWith and endsWith
startsWith(s, t) == Len(t) <= Len(s) /\ SubSeq(s, 1, Len(t)) = t
endsWith(s, t) == Len(t) <= Len(s) /\ SubSeq(s, Len(s) - Len(t) + 1, Len(s)) = t

\* the names the scan tests for
DotMd == Str(<<".", "m", "d">>)
DotMarkdown == Str(<<".", "m", "a", "r", "k", "d", "o", "w", "n">>)
NodeModules == Str(<<"n", "o", "d", "e", "_", "m", "o", "d", "u", "l", "e", "s">>)

\* path.join(dir, name) for a normalised dir and a plain name
pathJoin(dir, name) ==
    IF dir = Str(<<".">>) THEN name ELSE dir \o Str(<<"/">>) \o name

\* a directory entry: a regular file, a symbolic link, or a directory with its
\* own listing
File(name) == [name |-> name, kind |-> "file", entries |-> <<>>]
Link(name) == [name |-> name, kind |-> "link", entries |-> <<>>]
Dir(name, entries) == [name |-> name, kind |-> "dir", entries |-> entries]

\* a subdirectory two levels deep, listed out of order, with pruned
\* directories that hold documents
SubDir ==
    Dir(Str(<<"s">>),
        <<File(Str(<<"b", ".", "m", "d">>)),
          Dir(NodeModules, <<File(Str(<<"a", ".", "m", "d">>))>>),
          Dir(Str(<<"t">>), <<File(Str(<<"a", ".", "m", "d">>)),
                              File(Str(<<"a", ".", "t", "x", "t">>))>>),
          File(Str(<<"a", ".", "m", "a", "r", "k", "d", "o", "w", "n">>)),
          Dir(Str(<<".", "g">>), <<File(Str(<<"c", ".", "m", "d">>))>>)>>)

\* what the scanned directory can hold
EntryPool ==
    { File(Str(<<"b", ".", "m", "d">>)),
      File(Str(<<"Z", ".", "m", "d">>)),
      File(Str(<<"s", ".", "m", "d">>)),
      File(Str(<<"s", "-", "a", ".", "m", "a", "r", "k", "d", "o", "w", "n">>)),
      File(Str(<<"a", ".", "t", "x", "t">>)),
      File(Str(<<".", "x", ".", "m", "d">>)),
      File(Str(<<"m", "d">>)),
      Link(Str(<<"l", ".", "m", "d">>)),
      SubDir,
      Dir(Str(<<"n", ".", "m", "d">>), <<File(Str(<<"a", ".", "m", "d">>))>>),
      Dir(Str(<<".", "g">>), <<File(Str(<<"a", ".", "m", "d">>))>>),
      Dir(NodeModules, <<File(Str(<<"a", ".", "m", "d">>))>>) }

\* the listings of at most MaxEntries distinct entries, in any order
MaxEntries == 3
Listings ==
    UNION {{l \in [1..n -> EntryPool] : \A i, j \in 1..n : i # j => l[i] # l[j]} :
              n \in 0..MaxEntries}

\* the comparison of Array.prototype.sort() without a comparator: by code unit
codeUnitLess(a, b) ==
    LET n    == IF Len(a) < Len(b) THEN Len(a) ELSE Len(b)
        diff == {i \in 1..n : a[i] # b[i]}
    IN  IF diff = {} THEN Len(a) < Len(b)
        ELSE LET d == CHOOSE i \in diff : \A j \in diff : i <= j
             IN  a[d] < b[d]

\* Array.prototype.sort()
RECURSIVE sort(_)
sort(s) ==
    IF s = <<>> THEN <<>>
    ELSE LET m == CHOOSE i \in DOMAIN s :
                    \A j \in DOMAIN s : ~codeUnitLess(s[j], s[i])
         IN  <<s[m]>> \o sort(SubSeq(s, 1, m - 1) \o SubSeq(s, m + 1, Len(s)))

\* the directory is descended into
descends(entry) ==
    /\ entry.kind = "dir"
    /\ ~startsWith(entry.name, Str(<<".">>))
    /\ entry.name # NodeModules

\* the entry is pushed as a document
isDocument(entry) ==
    /\ entry.kind = "file"
    /\ endsWith(entry.name, DotMd) \/ endsWith(entry.name, DotMarkdown)

\* the scan returns what it collected, unsorted
RECURSIVE findMarkdownFiles_NoSort(_, _)
findMarkdownFiles_NoSort(dir, entries) ==
    IF entries = <<>> THEN <<>>
    ELSE LET entry    == Head(entries)
             fullPath == pathJoin(dir, entry.name)
             pushed   == IF descends(entry)
                         THEN findMarkdownFiles_NoSort(fullPath, entry.entries)
                         ELSE IF isDocument(entry) THEN <<fullPath>> ELSE <<>>
         IN  pushed \o findMarkdownFiles_NoSort(dir, Tail(entries))

\* findMarkdownFiles(dir), with the listings readdirSync returns below dir
RECURSIVE findMarkdownFiles(_, _), collect(_, _)
findMarkdownFiles(dir, entries) == sort(collect(dir, entries))

\* the for loop: results after the entries were visited in order
collect(dir, entries) ==
    IF entries = <<>> THEN <<>>
    ELSE LET entry    == Head(entries)
             fullPath == pathJoin(dir, entry.name)
             pushed   == IF descends(entry)
                         THEN findMarkdownFiles(fullPath, entry.entries)
                         ELSE IF isDocument(entry) THEN <<fullPath>> ELSE <<>>
         IN  pushed \o collect(dir, Tail(entries))

\* the directories fs.readdirSync was called on
RECURSIVE readdirCalls(_, _)
readdirCalls(dir, entries) ==
    {dir} \cup UNION {readdirCalls(pathJoin(dir, entries[i].name), entries[i].entries) :
                        i \in {k \in DOMAIN entries : descends(entries[k])}}

\* the directories main can be asked to scan
ScanRoots == {Str(<<".">>), Str(<<"d">>)}

InitFind ==
    /\ Idle
    /\ unreadable = {}
    /\ arg \in [fn : {"findMarkdownFiles"}, dir : ScanRoots, entries : Listings]

\* const mdFiles = findMarkdownFiles(target)
CallFindMarkdownFiles ==
    /\ arg.fn = "findMarkdownFiles" /\ ~ret.done
    /\ ret' = [done  |-> TRUE,
               value |-> [results |-> findMarkdownFiles(arg.dir, arg.entries),
                          read    |-> readdirCalls(arg.dir, arg.entries)]]
    /\ UNCHANGED <<pc, unreadable, selectorVars, stdinVars, tmpdir, child, now,
                   stderr, effects, other, arg>>

NextFind == CallFindMarkdownFiles

SpecFind == InitFind /\ [][NextFind]_vars

\* every entry below a listing: its full path, its own record, and whether one
\* of the directories between the scanned directory and the entry is pruned
\* (its name starts with '.' or is node_modules)
RECURSIVE nodesBelow(_, _, _)
nodesBelow(dir, entries, pruned) ==
    UNION {LET e == entries[i]
               p == pathJoin(dir, e.name)
           IN  {[path |-> p, entry |-> e, pruned |-> pruned]}
                   \cup nodesBelow(p, e.entries,
                                   pruned \/ e.name[1] = Code(".") \/ e.name = NodeModules)
           : i \in DOMAIN entries}

\* the name has the suffix .md or .markdown
hasDocumentSuffix(name) ==
    \E k \in 1..Len(name) : SubSeq(name, k, Len(name)) \in {DotMd, DotMarkdown}

\* a comes before b in ordinal (code unit) order
ordinalBefore(a, b) ==
    \E k \in 1..Len(b) :
        /\ \A i \in 1..(k - 1) : i <= Len(a) /\ a[i] = b[i]
        /\ k > Len(a) \/ a[k] < b[k]

\* C17: findMarkdownFiles(D) returns exactly the regular files below D whose
\* name ends in .md or .markdown and that are not below a subdirectory whose
\* name starts with '.' or is node_modules; such subdirectories are never
\* read; the list is in ascending ordinal order of the full paths, whatever
\* the depths of the files and the order of the directory listings.
C17_FindsExactlySorted ==
    ret.done /\ arg.fn = "findMarkdownFiles" =>
        LET r     == ret.value.results
            nodes == nodesBelow(arg.dir, arg.entries, FALSE)
        IN  /\ {r[i] : i \in DOMAIN r} =
                    {n.path : n \in {m \in nodes :
                                        /\ m.entry.kind = "file"
                                        /\ hasDocumentSuffix(m.entry.name)
                                        /\ ~m.pruned}}
            /\ \A i, j \in DOMAIN r : i < j => ordinalBefore(r[i], r[j])
            /\ \A n \in nodes :
                    n.entry.kind = "dir"
                    /\ (n.pruned \/ n.entry.name[1] = Code(".")
                                 \/ n.entry.name = NodeModules)
                        => n.path \notin ret.value.read

\* C17 witness: the listing was not in order, documents of three depths were
\* found, one of them with an upper-case name, and the tree holds documents
\* below pruned directories.
C17_Witness ==
    /\ ret.done /\ arg.fn = "findMarkdownFiles"
    /\ ret.value.results # findMarkdownFiles_NoSort(arg.dir, arg.entries)
    /\ \E i, j, k \in DOMAIN ret.value.results :
            /\ Cardinality({p \in DOMAIN ret.value.results[i] :
                                ret.value.results[i][p] = Code("/")}) = 0
            /\ Cardinality({p \in DOMAIN ret.value.results[j] :
                                ret.value.results[j][p] = Code("/")}) = 1
            /\ Cardinality({p \in DOMAIN ret.value.results[k] :
                                ret.value.results[k][p] = Code("/")}) = 2
            /\ ret.value.results[i][1] = Code("Z")
    /\ \E n \in nodesBelow(arg.dir, arg.entries, FALSE) :
            n.pruned /\ hasDocumentSuffix(n.entry.name)

\* the cursor after k presses of the down key in a list of n entries
RECURSIVE downTimes(_, _, _)
downTimes(c, n, k) == IF k = 0 THEN c ELSE downTimes(cursorDown(c, n), n, k - 1)

OtherShow(t) ==
    /\ Running
    /\ ~other.alive
    /\ now' = t
    /\ tmpdir' = tmpdir \cup {tmpFileName(t)}
    /\ other' = [alive |-> TRUE, tmpFile |-> tmpFileName(t)]
    /\ UNCHANGED <<pc, unreadable, selectorVars, stdinVars, child, stderr,
                   effects, arg, ret>>

\* the pager of the second instance exits: its 'close' listener unlinks the
\* artifact by name (if the file is gone the listener throws: that instance
\* ends either way)
OtherClose ==
    /\ other.alive
    /\ other' = [other EXCEPT !.alive = FALSE]
    /\ tmpdir' = tmpdir \ {other.tmpFile}
    /\ UNCHANGED <<pc, unreadable, selectorVars, stdinVars, child, now, stderr,
                   effects, arg, ret>>

NextTwo ==
    \/ Next
    \/ \E t \in DateNow : OtherShow(t)
    \/ OtherClose

SpecTwo == Init /\ [][NextTwo]_vars

\* C19 as stated: two view sessions that exist at the same time, also those of
\* two instances that read the same clock value, have different artifact
\* paths (so that the exit of one cannot remove or replace the artifact the
\* pager of the other is reading).
C19_ArtifactNamesNeverCollide ==
    child.alive /\ other.alive => child.tmpFile # other.tmpFile

(***************************************************************************)
(* render on its own: the passes applied to the text marked.parse returns. *)
(***************************************************************************)
\* an SGR escape sequence: ESC [ params m
Sgr(params) == Str(<<"ESC", "[">>) \o Str(params) \o Str(<<"m">>)

\* the chalk stylers of the three passes, outermost first (chalk.level = 3)
BoldStyle == <<[open |-> Sgr(<<"1">>), close |-> Sgr(<<"2", "2">>)]>>
ItalicStyle == <<[open |-> Sgr(<<"3">>), close |-> Sgr(<<"2", "3">>)]>>
CodeStyle ==
    <<[open  |-> Sgr(<<"4", "8", ";", "2", ";", "2", "2", "4", ";",
                       "2", "2", "4", ";", "2", "2", "4">>),
       close |-> Sgr(<<"4", "9">>)],
      [open  |-> Sgr(<<"3", "8", ";", "2", ";", "0", ";", "0", ";", "0">>),
       close |-> Sgr(<<"3", "9">>)]>>

\* chalk.level = 3, assigned when the program is loaded: it replaces the level
\* chalk derived from the environment (NO_COLOR, FORCE_COLOR, the terminal)
chalkLevel == 3

\* chalk.inverse.black, the style of the header of the artifact
HeaderStyle ==
    <<[open |-> Sgr(<<"7">>), close |-> Sgr(<<"2", "7">>)],
      [open |-> Sgr(<<"3", "0">>), close |-> Sgr(<<"3", "9">>)]>>

\* chalk: every occurrence of sub is followed by rep
RECURSIVE stringReplaceAll(_, _, _)
stringReplaceAll(s, sub, rep) ==
    IF Len(s) < Len(sub) THEN s
    ELSE IF startsWith(s, sub)
         THEN sub \o rep \o stringReplaceAll(SubSeq(s, Len(sub) + 1, Len(s)), sub, rep)
         ELSE <<Head(s)>> \o stringReplaceAll(Tail(s), sub, rep)

\* chalk: the style is closed before every line break and opened again after
RECURSIVE stringEncaseCRLF(_, _, _)
stringEncaseCRLF(s, prefix, postfix) ==
    IF s = <<>> THEN <<>>
    ELSE IF startsWith(s, <<13, 10>>)
         THEN prefix \o <<13, 10>> \o postfix
                \o stringEncaseCRLF(SubSeq(s, 3, Len(s)), prefix, postfix)
         ELSE IF Head(s) = 10
              THEN prefix \o <<10>> \o postfix
                     \o stringEncaseCRLF(Tail(s), prefix, postfix)
              ELSE <<Head(s)>> \o stringEncaseCRLF(Tail(s), prefix, postfix)

\* chalk: the close codes inside the text re-open the style, innermost first
RECURSIVE reopen(_, _, _)
reopen(stylers, k, s) ==
    IF k = 0 THEN s
    ELSE reopen(stylers, k - 1, stringReplaceAll(s, stylers[k].close, stylers[k].open))

RECURSIVE openAll(_)
openAll(stylers) ==
    IF stylers = <<>> THEN <<>> ELSE Head(stylers).open \o openAll(Tail(stylers))

RECURSIVE closeAll(_)
closeAll(stylers) ==
    IF stylers = <<>> THEN <<>> ELSE closeAll(Tail(stylers)) \o Head(stylers).close

\* chalk.bold(text), chalk.italic(text), chalk.bgHex(..).hex(..)(text)
applyStyle(stylers, string) ==
    IF chalkLevel <= 0 \/ string = <<>> THEN string
    ELSE LET s1 == IF \E i \in DOMAIN string : string[i] = 27
                   THEN reopen(stylers, Len(stylers), string)
                   ELSE string
             s2 == IF \E i \in DOMAIN s1 : s1[i] = 10
                   THEN stringEncaseCRLF(s1, closeAll(stylers), openAll(stylers))
                   ELSE s1
         IN  openAll(stylers) \o s2 \o closeAll(stylers)

\* the length of the longest prefix of s that holds none of the characters
RECURSIVE runWithout(_, _)
runWithout(s, chars) ==
    IF s = <<>> \/ Head(s) \in chars THEN 0 ELSE 1 + runWithout(Tail(s), chars)

\* result.replace(/\n{3,}/g, '\n\n')
RECURSIVE collapseBlankLines(_)
collapseBlankLines(s) ==
    IF s = <<>> THEN <<>>
    ELSE LET n == runWithout(s, {c \in 0..127 : c # 10})
         IN  IF n >= 3
             THEN <<10, 10>> \o collapseBlankLines(SubSeq(s, n + 1, Len(s)))
             ELSE <<Head(s)>> \o collapseBlankLines(Tail(s))

\* result.replace(/M([^c]+)M/g, (_, text) => style(text)) for a marker M made
\* of the character c: matches are taken from left to right and do not
\* overlap; the group is the longest run without c, which the closing marker
\* has to follow
RECURSIVE replaceSpans(_, _, _)
replaceSpans(s, marker, stylers) ==
    IF s = <<>> THEN <<>>
    ELSE LET m   == Len(marker)
             run == runWithout(SubSeq(s, m + 1, Len(s)), {marker[1]})
         IN  IF /\ startsWith(s, marker)
                /\ run >= 1
                /\ startsWith(SubSeq(s, m + run + 1, Len(s)), marker)
             THEN applyStyle(stylers, SubSeq(s, m + 1, m + run))
                    \o replaceSpans(SubSeq(s, m + run + m + 1, Len(s)), marker, stylers)
             ELSE <<Head(s)>> \o replaceSpans(Tail(s), marker, stylers)

\* result.split('\n').map(line => '  ' + line).join('\n')
RECURSIVE padLines(_)
padLines(lines) ==
    IF Len(lines) = 1 THEN <<32, 32>> \o lines[1]
    ELSE <<32, 32>> \o lines[1] \o <<10>> \o padLines(Tail(lines))

\* render(content), from the text marked.parse(content) returns
render(parsed) ==
    LET compact == collapseBlankLines(parsed)
        bold    == replaceSpans(compact, Str(<<"*", "*">>), BoldStyle)
        italic  == replaceSpans(bold, Str(<<"*">>), ItalicStyle)
        code    == replaceSpans(italic, Str(<<"TICK">>), CodeStyle)
    IN  padLines(split(code))

\* the markers of the three passes
Markers == {Str(<<"*", "*">>), Str(<<"*">>), Str(<<"TICK">>)}

\* a span: a body between an opening and a closing marker
span(marker, body) == marker \o body \o marker

\* the bodies of the spans with marker m: a word, a span of another kind, or
\* such a span with words around it
Word == Str(<<"a">>)
spanBodies(m) ==
    LET inner == {span(n, Word) : n \in Markers \ {m}}
    IN  {Word} \cup inner
               \cup {Word \o s : s \in inner}
               \cup {s \o Word : s \in inner}
               \cup {Word \o s \o Word : s \in inner}

\* the spans, those nested in a span of another kind included
Spans == UNION {{span(m, b) : b \in spanBodies(m)} : m \in Markers}

\* the texts made of n adjacent spans
RECURSIVE spanTexts(_)
spanTexts(n) ==
    IF n = 0 THEN {<<>>} ELSE {t \o s : t \in spanTexts(n - 1), s \in Spans}

\* the texts of at most MaxSpans adjacent spans handed to the passes
MaxSpans == 2
ParsedTexts == UNION {spanTexts(n) : n \in 1..MaxSpans}

\* the names shown in the header
HeaderNames == {Str(<<"a", ".", "m", "d">>)}

\* '  ' + chalk.inverse.black(` ${filename} `) + '\n\n'
header(filename) ==
    <<32, 32>> \o applyStyle(HeaderStyle, <<32>> \o filename \o <<32>>) \o <<10, 10>>

\* the environment holds NO_COLOR or not; nothing in the program reads it
InitRender ==
    /\ Idle
    /\ unreadable = {}
    /\ arg \in [fn : {"render"}, parsed : ParsedTexts, filename : HeaderNames,
                 noColor : BOOLEAN]

\* const rendered = header + render(content): value is render(content),
\* artifact is the text handed to fs.writeFileSync
CallRender ==
    /\ arg.fn = "render" /\ ~ret.done
    /\ ret' = [done     |-> TRUE,
               value    |-> render(arg.parsed),
               artifact |-> header(arg.filename) \o render(arg.parsed)]
    /\ UNCHANGED <<pc, unreadable, selectorVars, stdinVars, tmpdir, child, now,
                   stderr, effects, other, arg>>

NextRender == CallRender

SpecRender == InitRender /\ [][NextRender]_vars

\* C20 as stated: for every text made of bold, italic and code spans, nested
\* or adjacent, over the bounded alphabet, the output of the passes holds no
\* literal '*' and no literal backtick: no marker of a span is left.
C20_NoMarkerLeft ==
    ret.done /\ arg.fn = "render" =>
        \A i \in DOMAIN ret.value : ret.value[i] \notin {Code("*"), Code("TICK")}

\* C21 as stated: when NO_COLOR is set in the environment, the text written to
\* the artifact holds no styling code (no escape character); styling is
\* emitted only when the variable is unset.
C21_NoColorSuppressesStyling ==
    ret.done /\ arg.fn = "render" /\ arg.noColor =>
        \A i \in DOMAIN ret.artifact : ret.artifact[i] # Code("ESC")

\* the keys of C22: Enter, and the arrows (k and j are query characters in
\* Search mode)
EnterKeys == {KeyCr, KeyLf}
ArrowKeys == {KeyUp, KeyDown}

\* C22: in Search mode with no results (empty query, or no match), Enter, up
\* and down leave the mode, the query, the results and the cursor as they
\* are, launch no pager, keep raw mode on and keep the key handler attached;
\* with results, up and down move the cursor by one with wrap-around.
C22_NoResultsNoEffect ==
    [][searchMode /\ Accepting =>
        IF searchResults = <<>>
        THEN \/ /\ UNCHANGED <<pc, selectorVars, stdinVars, child, tmpdir>>
                /\ rawMode' /\ listeners' = 1 /\ ~child'.alive
             \/ \A key \in EnterKeys \cup ArrowKeys : ~inputHandler(key)
        ELSE \A key \in ArrowKeys :
                \/ /\ selected' = IF key = KeyUp
                                   THEN (selected + Len(searchResults) - 1)
                                            % Len(searchResults)
                                   ELSE (selected + 1) % Len(searchResults)
                   /\ UNCHANGED <<pc, files, searchMode, searchQuery,
                                  searchResults, stdinVars, child, tmpdir>>
                \/ ~inputHandler(key)]_vars

\* C22 witness: a query without a match was typed, and the handler ran once
\* more and returned without drawing: the selector still accepts keys in
\* Search mode, and Enter and the arrows are handled in that state.
C22_Witness ==
    /\ Accepting /\ searchMode /\ rawMode
    /\ searchQuery # <<>> /\ searchResults = <<>> /\ selected = 0
    /\ effects = <<>>
    /\ \A key \in EnterKeys \cup ArrowKeys : ENABLED inputHandler(key)

\* C23: whatever view sessions were opened and closed, exactly one key
\* handler is attached whenever the selector accepts keys, and none is
\* attached (and the stream is paused) while a pager is alive; while a pager
\* is alive no key is handled and no other view session starts.
C23_OneHandlerOrNone ==
    /\ [](pc = "selecting" => listeners = 1 /\ ~paused /\ ~child.alive)
    /\ [](child.alive => listeners = 0 /\ paused)
    /\ [][child.alive =>
            /\ \A key \in Keys : ~inputHandler(key)
            /\ child'.alive => child' = child]_vars

\* C23 witness: the selector accepts keys again after a view session opened
\* from the search results, with one handler attached.
C23_Witness ==
    /\ Resumed /\ Accepting /\ listeners = 1
    /\ child.exitCode # -1 /\ child.onClose
    /\ Len(child.args) = Len(lessArgs(2, child.tmpFile))

====
